---------------------------- MODULE Spec2Model ----------------------------
(***************************************************************************)
(* MFlix data-access objects: MoviesDAO (src/src/dao/moviesDAO.js),        *)
(* CommentsDAO (src/unnamed/part_000) and the startup injection            *)
(* (src/src/index.js), over an in-memory model of the two collections.     *)
(***************************************************************************)
EXTENDS Naturals, Sequences, FiniteSets

VARIABLES
    movies,       \* the movies collection, in natural (storage) order
    comments,     \* the comments collection, in natural (storage) order
    nextOid,      \* the next ObjectId the driver generates for an insert
    moviesH,      \* MoviesDAO.#movies   (Undefined until injected)
    mflixH,       \* MoviesDAO.#mflix    (Undefined until injected)
    commentsH,    \* CommentsDAO's module-level `comments` handle
    calls,        \* injectDB invocations in flight or finished
    startup,      \* where the startup handler of index.js stands
    assigns,      \* history: how many times each handle has been assigned
    last          \* the facade invocation that just returned

vars == <<movies, comments, nextOid, moviesH, mflixH, commentsH,
          calls, startup, assigns, last>>

(***************************************************************************)
(* Bounds of the model.                                                    *)
(***************************************************************************)
MaxInserts == 2      \* comments inserted in one behaviour
MaxMovies == 2       \* movies in the collection
MaxPage == 2         \* pages 0..MaxPage are requested
MaxCalls == 2        \* injectDB invocations per DAO besides the startup handler's
MaxExtra == 2        \* comments added on top of the preloaded collection

Undefined == 0
Null == [isNull |-> TRUE]

(***************************************************************************)
(* Values.  A JS string that is neither 24 hex characters nor 12 bytes is  *)
(* a "malformed" identifier; the two well-formed spellings of one ObjectId *)
(* are different strings.                                                  *)
(***************************************************************************)
Hex24(v) == [kind |-> "hex24", val |-> v]
Bytes12(v) == [kind |-> "bytes12", val |-> v]
Malformed == [kind |-> "malformed", val |-> 0]

\* Errors are (name, message); e.toString() is "<name>: <message>".
InvalidIdMessage ==
    "Argument passed in must be a single String of 12 bytes or a string of 24 hex characters"
InvalidIdError == [name |-> "Error", message |-> InvalidIdMessage]
DriverError == [name |-> "MongoError", message |-> "operation failed"]
UndefinedHandleError ==
    [name |-> "TypeError", message |-> "Cannot read property of undefined"]
FilterError == [name |-> "Error", message |-> "Must specify cast members to filter by."]

ToString(e) == <<e.name, ": ", e.message>>
StartsWith(s, p) == Len(s) >= Len(p) /\ SubSeq(s, 1, Len(p)) = p

\* bson's ObjectId(id): the ObjectId the string spells, or the InvalidId error.
ObjectId(id) ==
    IF id.kind \in {"hex24", "bytes12"}
    THEN [ok |-> TRUE, oid |-> id.val]
    ELSE [ok |-> FALSE, err |-> InvalidIdError]

\* what an invocation's promise settles to: a returned value (hasError: the
\* value is an object with an `error` key) or a thrown error
Returned(v) == [kind |-> "return", hasError |-> FALSE, val |-> v]
ReturnedError(e) == [kind |-> "return", hasError |-> TRUE, val |-> [error |-> e]]
Thrown(e) == [kind |-> "throw", err |-> e]

Min(a, b) == IF a <= b THEN a ELSE b

\* ObjectIds 1..MaxMovies name movies; the driver generates comment ids above them
FirstCommentOid == MaxMovies + 1

(***************************************************************************)
(* The driver primitives on a collection held as a sequence of documents.  *)
(* Match(_) is the filter document, Set(_) the update document.            *)
(***************************************************************************)
\* index of the first document the filter matches, 0 when none does
FirstMatch(coll, Match(_)) ==
    IF \E i \in DOMAIN coll : Match(coll[i])
    THEN CHOOSE i \in DOMAIN coll :
             Match(coll[i]) /\ \A j \in 1..(i - 1) : ~Match(coll[j])
    ELSE 0

RemoveAt(s, i) == [j \in 1..(Len(s) - 1) |-> IF j < i THEN s[j] ELSE s[j + 1]]

\* updateOne(filter, update): the first match is rewritten; modifiedCount is 0
\* when the rewrite leaves the document as it was.
UpdateOne(coll, Match(_), Set(_)) ==
    LET i == FirstMatch(coll, Match) IN
    IF i = 0 THEN [coll |-> coll, matchedCount |-> 0, modifiedCount |-> 0]
    ELSE [coll |-> [coll EXCEPT ![i] = Set(coll[i])],
          matchedCount |-> 1,
          modifiedCount |-> IF Set(coll[i]) = coll[i] THEN 0 ELSE 1]

\* deleteOne(filter): the first match is removed.
DeleteOne(coll, Match(_)) ==
    LET i == FirstMatch(coll, Match) IN
    IF i = 0 THEN [coll |-> coll, deletedCount |-> 0]
    ELSE [coll |-> RemoveAt(coll, i), deletedCount |-> 1]

\* $sort by Key descending, stable over the incoming order: each document is
\* inserted behind the documents before it whose key is not smaller.
SortDesc(s, Key(_)) ==
    LET Insert(x, t) ==
            LET n == Cardinality({i \in DOMAIN t : Key(t[i]) >= Key(x)})
            IN SubSeq(t, 1, n) \o <<x>> \o SubSeq(t, n + 1, Len(t))
        RECURSIVE Sorted(_)
        Sorted(k) == IF k = 0 THEN <<>> ELSE Insert(s[k], Sorted(k - 1))
    IN Sorted(Len(s))

Reverse(s) == [i \in DOMAIN s |-> s[Len(s) + 1 - i]]

\* $skip and $limit (limit > 0)
Skip(s, n) == SubSeq(s, n + 1, Len(s))
Limit(s, n) == SubSeq(s, 1, Min(n, Len(s)))

(***************************************************************************)
(* CommentsDAO                                                             *)
(***************************************************************************)
\* the document addComment builds (the driver adds _id on insert)
commentDoc(movieOid, user, comment, date) ==
    [name |-> user.name, email |-> user.email, movie_id |-> movieOid,
     text |-> comment, date |-> date]

WithId(doc, oid) ==
    [_id |-> oid, name |-> doc.name, email |-> doc.email,
     movie_id |-> doc.movie_id, text |-> doc.text, date |-> doc.date]

\* the filter of updateComment and of deleteComment: { _id, email }
ownerFilterIdOnly(doc, oid, userEmail) == doc._id = oid
ownerFilter(doc, oid, userEmail) == doc._id = oid /\ doc.email = userEmail

\* the update document of updateComment: { $set: { text, date } }
setTextOnly(doc, text, date) == [doc EXCEPT !.text = text]
setTextAndDate(doc, text, date) == [doc EXCEPT !.text = text, !.date = date]

Invocation(op, args, ret, reqs) ==
    [op |-> op, args |-> args, ret |-> ret, reqs |-> reqs]

CommentsFrame ==
    UNCHANGED <<movies, moviesH, mflixH, commentsH, calls, startup, assigns>>

\* addComment(movieId, user, comment, date); `fail`: insertOne rejects
addComment(movieId, user, comment, date, fail) ==
    LET mid == ObjectId(movieId)
        args == [movieId |-> movieId, user |-> user, comment |-> comment, date |-> date]
    IN
    /\ CommentsFrame
    /\ IF ~mid.ok
       THEN /\ last' = Invocation("addComment", args,
                           ReturnedError(mid.err), <<>>)
            /\ UNCHANGED <<comments, nextOid>>
       ELSE IF commentsH = Undefined
       THEN /\ last' = Invocation("addComment", args,
                           ReturnedError(UndefinedHandleError), <<>>)
            /\ UNCHANGED <<comments, nextOid>>
       ELSE IF fail
       THEN /\ last' = Invocation("addComment", args,
                           ReturnedError(DriverError), <<"insertOne">>)
            /\ UNCHANGED <<comments, nextOid>>
       ELSE /\ comments' = Append(comments,
                   WithId(commentDoc(mid.oid, user, comment, date), nextOid))
            /\ nextOid' = nextOid + 1
            /\ last' = Invocation("addComment", args,
                           Returned([insertedCount |-> 1, insertedId |-> nextOid]),
                           <<"insertOne">>)

\* updateComment(commentId, userEmail, text, date); `fail`: updateOne rejects
updateComment(commentId, userEmail, text, date, fail) ==
    LET cid == ObjectId(commentId)
        args == [commentId |-> commentId, userEmail |-> userEmail,
                 text |-> text, date |-> date]
        Match(doc) == ownerFilter(doc, cid.oid, userEmail)
        Set(doc) == setTextAndDate(doc, text, date)
        upd == UpdateOne(comments, Match, Set)
    IN
    /\ CommentsFrame
    /\ UNCHANGED nextOid
    /\ IF commentsH = Undefined
       THEN /\ last' = Invocation("updateComment", args,
                           ReturnedError(UndefinedHandleError), <<>>)
            /\ UNCHANGED comments
       ELSE IF ~cid.ok
       THEN /\ last' = Invocation("updateComment", args,
                           ReturnedError(cid.err), <<>>)
            /\ UNCHANGED comments
       ELSE IF fail
       THEN /\ last' = Invocation("updateComment", args,
                           ReturnedError(DriverError), <<"updateOne">>)
            /\ UNCHANGED comments
       ELSE /\ comments' = upd.coll
            /\ last' = Invocation("updateComment", args,
                           Returned([matchedCount |-> upd.matchedCount,
                                     modifiedCount |-> upd.modifiedCount]),
                           <<"updateOne">>)

\* deleteComment(commentId, userEmail); `fail`: deleteOne rejects
deleteComment(commentId, userEmail, fail) ==
    LET cid == ObjectId(commentId)
        args == [commentId |-> commentId, userEmail |-> userEmail]
        Match(doc) == ownerFilter(doc, cid.oid, userEmail)
        del == DeleteOne(comments, Match)
    IN
    /\ CommentsFrame
    /\ UNCHANGED nextOid
    /\ IF commentsH = Undefined
       THEN /\ last' = Invocation("deleteComment", args,
                           ReturnedError(UndefinedHandleError), <<>>)
            /\ UNCHANGED comments
       ELSE IF ~cid.ok
       THEN /\ last' = Invocation("deleteComment", args,
                           ReturnedError(cid.err), <<>>)
            /\ UNCHANGED comments
       ELSE IF fail
       THEN /\ last' = Invocation("deleteComment", args,
                           ReturnedError(DriverError), <<"deleteOne">>)
            /\ UNCHANGED comments
       ELSE /\ comments' = del.coll
            /\ last' = Invocation("deleteComment", args,
                           Returned([deletedCount |-> del.deletedCount]),
                           <<"deleteOne">>)

\* $group: { _id: "$email", count: { $sum: 1 } }, one document per email, in
\* the order the emails first appear
GroupByEmail(coll) ==
    LET emails == [i \in DOMAIN coll |-> coll[i].email]
        firsts == SelectSeq([i \in DOMAIN coll |-> i],
                      LAMBDA i : \A j \in 1..(i - 1) : emails[j] # emails[i])
    IN [k \in DOMAIN firsts |->
           [_id |-> emails[firsts[k]],
            count |-> Cardinality({j \in DOMAIN coll : emails[j] = emails[firsts[k]]})]]

TopN == 20

CountOf(g) == g.count

\* the pipeline of mostActiveCommenters: $group, $sort { count: -1 }, $limit 20.
\* The server fixes no order among groups of equal count: `tie` is the order
\* in which the groups reach the sort.
pipelineNoSort(coll, tie) ==
    LET groups == GroupByEmail(coll)
        incoming == IF tie = "natural" THEN groups ELSE Reverse(groups)
    IN Limit(incoming, TopN)
pipeline(coll, tie) ==
    LET groups == GroupByEmail(coll)
        incoming == IF tie = "natural" THEN groups ELSE Reverse(groups)
    IN Limit(SortDesc(incoming, CountOf), TopN)

\* mostActiveCommenters(); `fail`: aggregate/toArray rejects
mostActiveCommenters(tie, fail) ==
    /\ CommentsFrame
    /\ UNCHANGED <<comments, nextOid>>
    /\ IF commentsH = Undefined
       THEN last' = Invocation("mostActiveCommenters", [tie |-> tie],
                        ReturnedError(UndefinedHandleError), <<>>)
       ELSE IF fail
       THEN last' = Invocation("mostActiveCommenters", [tie |-> tie],
                        ReturnedError(DriverError), <<"aggregate.toArray">>)
       ELSE last' = Invocation("mostActiveCommenters", [tie |-> tie],
                        Returned(pipeline(comments, tie)), <<"aggregate.toArray">>)

(***************************************************************************)
(* MoviesDAO                                                               *)
(***************************************************************************)
\* a JS string as its pieces; ", " is the separator piece of split(", ")
RECURSIVE Split(_)
Split(pieces) ==
    IF pieces = <<>> THEN <<"">>
    ELSE LET rest == Split(Tail(pieces)) IN
         IF Head(pieces) = ", " THEN <<"">> \o rest
         ELSE <<Head(pieces) \o Head(rest)>> \o Tail(rest)

ArrayOf(items) == [isArray |-> TRUE, items |-> items]
StringOf(pieces) == [isArray |-> FALSE, pieces |-> pieces]

\* Array.isArray(x) ? x : x.split(", ")
searchList(x) == IF x.isArray THEN x.items ELSE Split(x.pieces)

Range(s) == {s[i] : i \in DOMAIN s}

\* $text score of a document for a search term: its occurrences in the plot
TextScore(doc, term) == Cardinality({i \in DOMAIN doc.plot : doc.plot[i] = term})

\* QueryParams: the predicate (query), the projection and the sort key
textSearchQuery(text) == [kind |-> "text", text |-> text, list |-> <<>>]
castSearchQuery(cast) == [kind |-> "cast", text |-> "", list |-> searchList(cast)]
genreSearchQuery(genre) == [kind |-> "genre", text |-> "", list |-> searchList(genre)]
emptyQuery == [kind |-> "all", text |-> "", list |-> <<>>]

\* a `filters` argument: left out, null, or an object with some of its keys set
AbsentFilters == [given |-> "absent", has |-> {}, text |-> "", cast |-> ArrayOf(<<>>),
                  genre |-> ArrayOf(<<>>)]
NullFilters == [given |-> "null", has |-> {}, text |-> "", cast |-> ArrayOf(<<>>),
                genre |-> ArrayOf(<<>>)]
EmptyObject == [given |-> "object", has |-> {}, text |-> "", cast |-> ArrayOf(<<>>),
                genre |-> ArrayOf(<<>>)]
TextFilter(t) == [EmptyObject EXCEPT !.has = {"text"}, !.text = t]
CastFilter(c) == [EmptyObject EXCEPT !.has = {"cast"}, !.cast = c]
GenreFilter(g) == [EmptyObject EXCEPT !.has = {"genre"}, !.genre = g]

\* JS truthiness of `filters`
Truthy(filters) == filters.given = "object"

\* getMovies' choice of QueryParams: "text" before "cast" before "genre"
queryParams(filters) ==
    IF ~Truthy(filters) THEN emptyQuery
    ELSE IF "text" \in filters.has THEN textSearchQuery(filters.text)
    ELSE IF "cast" \in filters.has THEN castSearchQuery(filters.cast)
    ELSE IF "genre" \in filters.has THEN genreSearchQuery(filters.genre)
    ELSE emptyQuery

\* whether a document satisfies the query of a QueryParams
Satisfies(doc, q) ==
    CASE q.kind = "text" -> TextScore(doc, q.text) > 0
      [] q.kind = "cast" -> doc.cast \cap Range(q.list) # {}
      [] q.kind = "genre" -> doc.genres \cap Range(q.list) # {}
      [] OTHER -> TRUE

\* the sort key: the text score for a text search, else DEFAULT_SORT
\* (tomatoes.viewer.numReviews), both descending
SortKey(doc, q) == IF q.kind = "text" THEN TextScore(doc, q.text) ELSE doc.numReviews

\* the projection: a text search adds the score, the others project nothing away
Project(doc, q) ==
    [_id |-> doc._id, title |-> doc.title, cast |-> doc.cast, genres |-> doc.genres,
     countries |-> doc.countries, plot |-> doc.plot, numReviews |-> doc.numReviews,
     runtime |-> doc.runtime, metacritic |-> doc.metacritic,
     score |-> IF q.kind = "text" THEN TextScore(doc, q.text) ELSE Undefined]

\* find(query).project(project).sort(sort): what the cursor yields
Find(coll, q) ==
    LET matched == SelectSeq(coll, LAMBDA doc : Satisfies(doc, q))
        sorted == SortDesc(matched, LAMBDA doc : SortKey(doc, q))
    IN [i \in DOMAIN sorted |-> Project(sorted[i], q)]

\* countDocuments(query)
CountDocuments(coll, q) == Cardinality({i \in DOMAIN coll : Satisfies(coll[i], q)})

\* cursor.skip(page * moviesPerPage).limit(moviesPerPage)
displayCursorSkipsPages(cursor, page, moviesPerPage) ==
    Limit(Skip(cursor, page), moviesPerPage)
displayCursor(cursor, page, moviesPerPage) ==
    Limit(Skip(cursor, page * moviesPerPage), moviesPerPage)

\* page === 0: whether getMovies goes on to countDocuments
countsDocumentsAlways(page) == TRUE
countsDocuments(page) == page = 0

\* page === 0 ? await countDocuments(query) : 0
totalNumMoviesAlways(page, count) == count
totalNumMovies(page, count) == IF countsDocuments(page) THEN count ELSE 0

EmptyResult == [moviesList |-> <<>>, totalNumMovies |-> 0]

\* the two catch blocks of getMovies
findCatch(e) == Returned(EmptyResult)
arrayCatchRethrows(e) == Thrown(e)
arrayCatch(e) == Returned(EmptyResult)

MoviesFrame ==
    UNCHANGED <<movies, comments, nextOid, moviesH, mflixH, commentsH,
                calls, startup, assigns>>

\* getMovies({filters, page, moviesPerPage}); `fail` names the driver call
\* that fails: "find" (find/project/sort), "toArray", "countDocuments", or "none"
getMovies(filters, page, moviesPerPage, fail) ==
    LET args == [filters |-> filters, page |-> page,
                 moviesPerPage |-> moviesPerPage, fail |-> fail]
        q == queryParams(filters)
        cursor == Find(movies, q)
        moviesList == displayCursor(cursor, page, moviesPerPage)
    IN
    /\ MoviesFrame
    /\ IF moviesH = Undefined
       THEN last' = Invocation("getMovies", args, findCatch(UndefinedHandleError), <<>>)
       ELSE IF fail = "find"
       THEN last' = Invocation("getMovies", args, findCatch(DriverError), <<>>)
       ELSE IF fail = "toArray"
       THEN last' = Invocation("getMovies", args, arrayCatch(DriverError), <<"toArray">>)
       ELSE IF countsDocuments(page) /\ fail = "countDocuments"
       THEN last' = Invocation("getMovies", args, arrayCatch(DriverError),
                        <<"toArray", "countDocuments">>)
       ELSE last' = Invocation("getMovies", args,
                        Returned([moviesList |-> moviesList,
                                  totalNumMovies |->
                                      totalNumMovies(page, CountDocuments(movies, q))]),
                        IF countsDocuments(page) THEN <<"toArray", "countDocuments">>
                        ELSE <<"toArray">>)

\* getMoviesByCountry(countries): find(...) in a try that returns [], then
\* cursor.toArray() outside it
getMoviesByCountry(countries, fail) ==
    LET args == [countries |-> countries, fail |-> fail]
        matched == SelectSeq(movies, LAMBDA doc : doc.countries \cap Range(countries) # {})
        titles == [i \in DOMAIN matched |->
                      [_id |-> matched[i]._id, title |-> matched[i].title]]
    IN
    /\ MoviesFrame
    /\ IF moviesH = Undefined
       THEN last' = Invocation("getMoviesByCountry", args, Returned(<<>>), <<>>)
       ELSE IF fail = "find"
       THEN last' = Invocation("getMoviesByCountry", args, Returned(<<>>), <<>>)
       ELSE IF fail = "toArray"
       THEN last' = Invocation("getMoviesByCountry", args, Thrown(DriverError), <<"toArray">>)
       ELSE last' = Invocation("getMoviesByCountry", args, Returned(titles), <<"toArray">>)

\* the guard of facetedSearch: !filters || !filters.cast
rejectsFiltersNullOnly(filters) == ~Truthy(filters)
rejectsFilters(filters) == ~Truthy(filters) \/ "cast" \notin filters.has

\* $match: filters, on the fields a movie document has (none is named
\* "text" or "genre")
MatchStage(doc, filters) ==
    /\ "cast" \in filters.has => doc.cast \cap Range(searchList(filters.cast)) # {}
    /\ "genre" \notin filters.has
    /\ "text" \notin filters.has

\* $bucket with a default: the non-empty buckets, by lower boundary, then "other"
Bucket(docs, Field(_), boundaries, labels) ==
    LET n == Len(boundaries) - 1
        InBucket(v, k) == boundaries[k] <= v /\ v < boundaries[k + 1]
        count(k) == Cardinality({i \in DOMAIN docs :
                        IF k <= n THEN InBucket(Field(docs[i]), k)
                        ELSE \A j \in 1..n : ~InBucket(Field(docs[i]), j)})
        all == [k \in 1..(n + 1) |-> [_id |-> labels[k], count |-> count(k)]]
    IN SelectSeq(all, LAMBDA b : b.count > 0)

RuntimeBoundaries == <<0, 60, 90, 120, 180>>
RuntimeLabels == <<"0", "60", "90", "120", "other">>
RatingBoundaries == <<0, 50, 70, 90, 100>>
RatingLabels == <<"0", "50", "70", "90", "other">>

\* queryPipeline: $match, $sort, $skip, $limit, $facet
queryPipeline(coll, filters, page, moviesPerPage) ==
    LET matched == SelectSeq(coll, LAMBDA doc : MatchStage(doc, filters))
        sorted == SortDesc(matched, LAMBDA doc : doc.numReviews)
        shown == Limit(Skip(sorted, moviesPerPage * page), moviesPerPage)
    IN [runtime |-> Bucket(shown, LAMBDA doc : doc.runtime,
                           RuntimeBoundaries, RuntimeLabels),
        rating |-> Bucket(shown, LAMBDA doc : doc.metacritic,
                          RatingBoundaries, RatingLabels),
        movies |-> shown]

\* countingPipeline: $match, $sort, $count; no document when nothing matches
countingPipeline(coll, filters) ==
    Cardinality({i \in DOMAIN coll : MatchStage(coll[i], filters)})

\* { ...results, ...count }
Spread(results, count) ==
    IF count = 0 THEN results
    ELSE [runtime |-> results.runtime, rating |-> results.rating,
          movies |-> results.movies, count |-> count]

TooLarge == "Results too large, be more restrictive in filter"

\* facetedSearch({filters, page, moviesPerPage}); `fail`: "query" (the first
\* aggregate), "count" (the second) or "none"
facetedSearch(filters, page, moviesPerPage, fail) ==
    LET args == [filters |-> filters, page |-> page,
                 moviesPerPage |-> moviesPerPage, fail |-> fail]
    IN
    /\ MoviesFrame
    /\ IF rejectsFilters(filters)
       THEN last' = Invocation("facetedSearch", args, Thrown(FilterError), <<>>)
       ELSE IF moviesH = Undefined
       THEN last' = Invocation("facetedSearch", args, ReturnedError(TooLarge), <<>>)
       ELSE IF fail = "query"
       THEN last' = Invocation("facetedSearch", args, ReturnedError(TooLarge),
                        <<"aggregate.next">>)
       ELSE IF fail = "count"
       THEN last' = Invocation("facetedSearch", args, ReturnedError(TooLarge),
                        <<"aggregate.next", "aggregate.next">>)
       ELSE last' = Invocation("facetedSearch", args,
                        Returned(Spread(queryPipeline(movies, filters, page, moviesPerPage),
                                        countingPipeline(movies, filters))),
                        <<"aggregate.next", "aggregate.next">>)

\* the test of getMovieByID's catch block on e.toString()
InvalidIdPrefix == <<"Error", ": ", InvalidIdMessage>>
isInvalidIdMessageOnly(e) == StartsWith(ToString(e), <<InvalidIdMessage>>)
isInvalidId(e) == StartsWith(ToString(e), InvalidIdPrefix)

getMovieByIDCatch(e) == IF isInvalidId(e) THEN Returned(Null) ELSE Thrown(e)

\* $match { _id } and $lookup of the movie's comments, newest first
lookupPipeline(coll, oid) ==
    LET matched == SelectSeq(coll, LAMBDA doc : doc._id = oid)
        joined(doc) == SortDesc(SelectSeq(comments, LAMBDA c : c.movie_id = doc._id),
                                LAMBDA c : c.date)
    IN IF matched = <<>> THEN Null
       ELSE [isNull |-> FALSE, movie |-> matched[1], comments |-> joined(matched[1])]

\* getMovieByID(id); `fail`: aggregate(...).next() rejects
getMovieByID(id, fail) ==
    LET args == [id |-> id, fail |-> fail]
        oid == ObjectId(id)
    IN
    /\ MoviesFrame
    /\ IF ~oid.ok
       THEN last' = Invocation("getMovieByID", args, getMovieByIDCatch(oid.err), <<>>)
       ELSE IF moviesH = Undefined
       THEN last' = Invocation("getMovieByID", args,
                        getMovieByIDCatch(UndefinedHandleError), <<>>)
       ELSE IF fail
       THEN last' = Invocation("getMovieByID", args, getMovieByIDCatch(DriverError),
                        <<"aggregate.next">>)
       ELSE last' = Invocation("getMovieByID", args,
                        Returned(lookupPipeline(movies, oid.oid)), <<"aggregate.next">>)

(***************************************************************************)
(* injectDB invocations: the startup handler's (caller 0) and those of     *)
(* other importers of the DAOs (callers 1..MaxCalls), one slot per caller  *)
(* and DAO.                                                                *)
(***************************************************************************)
Daos == {"movies", "comments"}
Slots == (0..MaxCalls) \X Daos
Idle == [pc |-> "idle", val |-> Undefined]
NoCalls == [s \in Slots |-> Idle]

\* the identity of the object the client hands to an invocation: the Db of
\* conn.db(ns) (stage 1) or the Collection of .collection(name) (stage 2)
ObjectOf(slot, stage) ==
    4 * slot[1] + (IF slot[2] = "movies" THEN 0 ELSE 2) + stage

(***************************************************************************)
(* Inputs                                                                  *)
(***************************************************************************)
Users == {[name |-> "Ada", email |-> 1], [name |-> "Bob", email |-> 2]}
Emails == {u.email : u \in Users}
Texts == {"great film", "revised"}
AddDates == {1}
UpdateDates == {2}
MovieIdInputs == {Hex24(1), Malformed}
CommentOids == FirstCommentOid..(FirstCommentOid + MaxInserts - 1)
CommentIdInputs == {Hex24(v) : v \in CommentOids} \cup {Malformed}
Ties == {"natural", "reversed"}

NoInvocation == Invocation("none", <<>>, Returned(Null), <<>>)

(***************************************************************************)
(* The comments facade on an initially empty collection.                   *)
(***************************************************************************)
InitComments ==
    /\ movies = <<>>
    /\ comments = <<>>
    /\ nextOid = FirstCommentOid
    /\ moviesH = Undefined
    /\ mflixH = Undefined
    /\ commentsH \in {Undefined, 1}
    /\ calls = NoCalls
    /\ startup = "listening"
    /\ assigns = [h \in {"movies", "mflix", "comments"} |-> 0]
    /\ last = NoInvocation

NextComments ==
    \/ \E m \in MovieIdInputs, u \in Users, d \in AddDates, f \in BOOLEAN :
           /\ nextOid < FirstCommentOid + MaxInserts
           /\ addComment(m, u, "great film", d, f)
    \/ \E c \in CommentIdInputs, e \in Emails, t \in Texts, d \in UpdateDates, f \in BOOLEAN :
           updateComment(c, e, t, d, f)
    \/ \E c \in CommentIdInputs, e \in Emails, f \in BOOLEAN :
           deleteComment(c, e, f)
    \/ \E tie \in Ties, f \in BOOLEAN :
           mostActiveCommenters(tie, f)

SpecComments == InitComments /\ [][NextComments]_vars

(***************************************************************************)
(* The movies facade over a collection the application never writes.       *)
(***************************************************************************)
MovieA == [title |-> "A", cast |-> {"Tom"}, genres |-> {"Drama"},
           countries |-> {"USA"}, plot |-> <<"war", "war">>, numReviews |-> 2,
           runtime |-> 95, metacritic |-> 80]
MovieB == [title |-> "B", cast |-> {"Tom", "Ann"}, genres |-> {"Comedy"},
           countries |-> {"UK"}, plot |-> <<"war", "love">>, numReviews |-> 1,
           runtime |-> 45, metacritic |-> 40]
MovieC == [title |-> "C", cast |-> {"Ann"}, genres |-> {"Drama"},
           countries |-> {"USA", "UK"}, plot |-> <<"love">>, numReviews |-> 2,
           runtime |-> 200, metacritic |-> 100]
Catalogue == {MovieA, MovieB, MovieC}

MovieDoc(t, oid) ==
    [_id |-> oid, title |-> t.title, cast |-> t.cast, genres |-> t.genres,
     countries |-> t.countries, plot |-> t.plot, numReviews |-> t.numReviews,
     runtime |-> t.runtime, metacritic |-> t.metacritic]

\* every collection of at most MaxMovies catalogue movies, with _id 1, 2, ...
Collections ==
    UNION {{[i \in 1..n |-> MovieDoc(c[i], i)] : c \in [1..n -> Catalogue]} :
              n \in 0..MaxMovies}

\* two comments on movie 1, the older one stored first
StoredComments ==
    <<WithId(commentDoc(1, [name |-> "Ada", email |-> 1], "great film", 1),
             FirstCommentOid),
      WithId(commentDoc(1, [name |-> "Bob", email |-> 2], "revised", 2),
             FirstCommentOid + 1)>>

GetMoviesFilters ==
    {AbsentFilters, TextFilter("war"), CastFilter(ArrayOf(<<"Ann">>)),
     CastFilter(StringOf(<<"Tom", ", ", "Ann">>)), GenreFilter(StringOf(<<"Drama">>))}
FacetFilters ==
    {AbsentFilters, NullFilters, EmptyObject, GenreFilter(ArrayOf(<<"Drama">>)),
     CastFilter(ArrayOf(<<"Tom">>))}
Pages == 0..MaxPage
PageSizes == {1, 2}
GetMoviesFails == {"none", "find", "toArray", "countDocuments"}
FacetFails == {"none", "query", "count"}
MovieIdArgs == {Hex24(1), Bytes12(1), Hex24(MaxMovies), Malformed}
CountryArgs == {<<"USA">>, <<"UK", "USA">>}
CountryFails == {"none", "find", "toArray"}

InitMovies ==
    /\ movies \in Collections
    /\ comments = StoredComments
    /\ nextOid = FirstCommentOid + 2
    /\ moviesH \in {Undefined, 1}
    /\ mflixH = moviesH
    /\ commentsH = Undefined
    /\ calls = NoCalls
    /\ startup = "listening"
    /\ assigns = [h \in {"movies", "mflix", "comments"} |-> 0]
    /\ last = NoInvocation

NextMovies ==
    \/ \E f \in GetMoviesFilters, p \in Pages, n \in PageSizes, x \in GetMoviesFails :
           getMovies(f, p, n, x)
    \/ \E f \in FacetFilters, p \in {0, MaxPage}, x \in FacetFails :
           facetedSearch(f, p, 1, x)
    \/ \E id \in MovieIdArgs, x \in BOOLEAN :
           getMovieByID(id, x)
    \/ \E c \in CountryArgs, x \in CountryFails :
           getMoviesByCountry(c, x)

SpecMovies == InitMovies /\ [][NextMovies]_vars

(***************************************************************************)
(* Properties of the comments facade                                       *)
(***************************************************************************)
IsErrorWrapper(ret) == ret.kind = "return" /\ ret.hasError

\* the ObjectId an invocation's commentId argument spells (Undefined when malformed)
CalledOid(inv) ==
    IF ObjectId(inv.args.commentId).ok THEN ObjectId(inv.args.commentId).oid ELSE Undefined

\* the invocation named a stored comment's identifier with another email
ForeignCall(inv, doc) ==
    /\ inv.op \in {"updateComment", "deleteComment"}
    /\ CalledOid(inv) = doc._id
    /\ inv.args.userEmail # doc.email

ReportsZero(inv) ==
    IF inv.op = "updateComment"
    THEN inv.ret = Returned([matchedCount |-> 0, modifiedCount |-> 0])
    ELSE inv.ret = Returned([deletedCount |-> 0])

\* C1: an updateComment or deleteComment call that names a stored comment's
\* identifier with an email other than the stored one leaves that comment in
\* the collection exactly as it was (the whole collection, in fact), and the
\* database's answer reports zero matched/modified or zero deleted; the only
\* other response is the error wrapper of a call the driver rejected. This
\* holds in every state add/update/delete sequences reach.
OwnerGate ==
    [][\A i \in DOMAIN comments :
          ForeignCall(last', comments[i])
          => /\ comments' = comments
             /\ \E j \in DOMAIN comments' : comments'[j] = comments[i]
             /\ (ReportsZero(last') \/ last'.ret = ReturnedError(DriverError))
      ]_vars

\* a deleteComment under a foreign email was answered with deletedCount 0
\* while the comment it named is stored next to another one
OwnerGateWitness ==
    /\ last.op = "deleteComment"
    /\ last.ret = Returned([deletedCount |-> 0])
    /\ Len(comments) = 2
    /\ \E i \in DOMAIN comments : ForeignCall(last, comments[i])

\* the invocation named a stored comment's identifier and its stored email,
\* and the database answered it
OwnCall(inv, doc) ==
    /\ inv.op = "updateComment"
    /\ CalledOid(inv) = doc._id
    /\ inv.args.userEmail = doc.email
    /\ ~IsErrorWrapper(inv.ret)

\* C2: an updateComment call with a stored comment's identifier and the email
\* it was inserted with stores the new text and the new date on that comment
\* and changes nothing else: its name, email and movie_id are kept and every
\* other stored comment is as it was.
UpdateSetsTextAndDateOnly ==
    [][\A i \in DOMAIN comments :
          OwnCall(last', comments[i])
          => comments' = [comments EXCEPT ![i].text = last'.args.text,
                                          ![i].date = last'.args.date]
      ]_vars

\* an update by the owner changed one of two stored comments: the stored
\* text and date are the new ones
UpdateWitness ==
    /\ last.op = "updateComment"
    /\ last.ret = Returned([matchedCount |-> 1, modifiedCount |-> 1])
    /\ Len(comments) = 2
    /\ \E i \in DOMAIN comments :
          /\ OwnCall(last, comments[i])
          /\ comments[i].text = "revised"
          /\ comments[i].date = 2

(***************************************************************************)
(* Properties of the movies facade                                         *)
(***************************************************************************)
\* a driver call of the getMovies invocation failed: find/project/sort (also
\* on an undefined handle), toArray, or countDocuments (issued for page 0 only)
DriverFailed(inv) ==
    \/ moviesH = Undefined
    \/ inv.args.fail \in {"find", "toArray"}
    \/ inv.args.fail = "countDocuments" /\ inv.args.page = 0

\* the number of stored movies the invocation's filter matches
Matching(inv) ==
    Cardinality({i \in DOMAIN movies :
                    Satisfies(movies[i], queryParams(inv.args.filters))})

\* how many movies lie on page p of size n when `total` movies match
OnPage(total, p, n) == IF total > p * n THEN Min(n, total - p * n) ELSE 0

\* C3: getMovieByID called with an identifier the ObjectId constructor
\* rejects returns null; it does not throw, whatever the state of the handle.
InvalidIdReturnsNull ==
    (last.op = "getMovieByID" /\ ~ObjectId(last.args.id).ok)
    => last.ret = Returned(Null)

\* getMovieByID returned null for a malformed identifier without a request
InvalidIdWitness ==
    /\ last.op = "getMovieByID"
    /\ last.args.id = Malformed
    /\ last.ret = Returned(Null)
    /\ last.reqs = <<>>
    /\ movies # <<>>

EmptyFilterRejected ==
    (last.op = "facetedSearch"
        /\ (last.args.filters.given \in {"absent", "null"} \/ last.args.filters.has = {}))
    => /\ last.ret = Thrown(FilterError)
       /\ last.reqs = <<>>

\* facetedSearch({filters: {}}) was rejected while the handle was set
EmptyFilterWitness ==
    /\ last.op = "facetedSearch"
    /\ last.args.filters = EmptyObject
    /\ moviesH # Undefined
    /\ last.ret.kind = "throw"
    /\ last.reqs = <<>>

\* C7: when a driver call of getMovies fails (find/project/sort, toArray or
\* countDocuments), getMovies returns {moviesList: [], totalNumMovies: 0} and
\* propagates nothing, for every filter, page and page size.
FailureGivesEmptyResult ==
    (last.op = "getMovies" /\ DriverFailed(last))
    => last.ret = Returned(EmptyResult)

\* countDocuments failed on page 0 of a non-empty match, after toArray succeeded
FailureWitness ==
    /\ last.op = "getMovies"
    /\ moviesH # Undefined
    /\ last.args.fail = "countDocuments"
    /\ last.args.page = 0
    /\ Matching(last) > 0
    /\ last.reqs = <<"toArray", "countDocuments">>
    /\ last.ret = Returned(EmptyResult)

\* pages 0..p of size n of a cursor, one after the other
RECURSIVE PagesUpTo(_, _, _)
PagesUpTo(cursor, p, n) ==
    IF p = 0 THEN displayCursor(cursor, 0, n)
    ELSE PagesUpTo(cursor, p - 1, n) \o displayCursor(cursor, p, n)

Preloaded(n) ==
    [i \in 1..n |->
        WithId(commentDoc(1, [name |-> "user", email |-> i], "great film", 1),
               FirstCommentOid + i - 1)]

\* commenters of the preloaded collection and one who is not among them
ActiveUsers ==
    {[name |-> "user", email |-> 1], [name |-> "user", email |-> 2],
     [name |-> "user", email |-> TopN + 2]}

InitTopN ==
    /\ movies = <<>>
    /\ \E n \in {TopN - 1, TopN + 1} :
          /\ comments = Preloaded(n)
          /\ nextOid = FirstCommentOid + n
    /\ moviesH = Undefined
    /\ mflixH = Undefined
    /\ commentsH \in {Undefined, 1}
    /\ calls = NoCalls
    /\ startup = "listening"
    /\ assigns = [h \in {"movies", "mflix", "comments"} |-> 0]
    /\ last = NoInvocation

NextTopN ==
    \/ \E u \in ActiveUsers, f \in BOOLEAN :
           /\ nextOid < FirstCommentOid + TopN + 1 + MaxExtra
           /\ addComment(Hex24(1), u, "great film", 1, f)
    \/ \E v \in {FirstCommentOid, FirstCommentOid + 1}, f \in BOOLEAN :
           deleteComment(Hex24(v), v + 1 - FirstCommentOid, f)
    \/ \E tie \in Ties, f \in BOOLEAN :
           mostActiveCommenters(tie, f)

SpecTopN == InitTopN /\ [][NextTopN]_vars

StoredUnder(email) == Cardinality({i \in DOMAIN comments : comments[i].email = email})
StoredEmails == {comments[i].email : i \in DOMAIN comments}

\* the database answered the mostActiveCommenters invocation
Answered(inv) == inv.op = "mostActiveCommenters" /\ ~IsErrorWrapper(inv.ret)

\* at most TopN entries, each a distinct stored email with its number of
\* comments, no email left out for one with fewer comments
IsTopList(r) ==
    /\ Len(r) <= TopN
    /\ Len(r) = Min(TopN, Cardinality(StoredEmails))
    /\ \A k \in DOMAIN r : r[k]._id \in StoredEmails /\ r[k].count = StoredUnder(r[k]._id)
    /\ \A k, l \in DOMAIN r : k # l => r[k]._id # r[l]._id
    /\ \A e \in StoredEmails :
          (\A k \in DOMAIN r : r[k]._id # e)
          => \A k \in DOMAIN r : r[k].count >= StoredUnder(e)

\* C6 as stated: the entries are strictly sorted by count descending (every
\* entry's count is greater than the count of the entry after it).
StrictlySortedTopN ==
    Answered(last) =>
        /\ IsTopList(last.ret.val)
        /\ \A k \in 1..(Len(last.ret.val) - 1) :
              last.ret.val[k].count > last.ret.val[k + 1].count

\* C6 as amended: mostActiveCommenters, when the aggregation succeeds, returns
\* at most TopN entries, each a distinct email with the number of comments
\* stored under it, sorted by count descending with ties allowed: no entry's
\* count is less than the count of the entry after it.
SortedTopN ==
    Answered(last) =>
        /\ IsTopList(last.ret.val)
        /\ \A k \in 1..(Len(last.ret.val) - 1) :
              last.ret.val[k].count >= last.ret.val[k + 1].count

\* more than TopN commenters are stored, the list holds exactly TopN, led by
\* a commenter with two comments and followed by commenters with one each
SortedTopNWitness ==
    /\ Answered(last)
    /\ Cardinality(StoredEmails) > TopN
    /\ Len(last.ret.val) = TopN
    /\ last.ret.val[1] = [_id |-> 2, count |-> 2]
    /\ last.ret.val[2].count = 1
    /\ last.ret.val[TopN].count = 1

(***************************************************************************)
(* injectDB and the startup handler.  An invocation runs to its first      *)
(* await, and each resumption runs to the next await or to the return.     *)
(***************************************************************************)
Assigned(h) == [assigns EXCEPT ![h] = @ + 1]

InjectFrame == UNCHANGED <<movies, comments, nextOid, last>>

\* the presence check that opens injectDB
alreadyInjected(dao) ==
    IF dao = "movies" THEN moviesH # Undefined ELSE commentsH # Undefined

\* injectDB(conn) up to its first await; `throws`: the client call evaluated
\* there throws and the catch block logs it.  MoviesDAO awaits conn.db(ns)
\* first; CommentsDAO awaits conn.db(ns).collection("comments") at once.
injectDB(slot, throws) ==
    /\ calls[slot].pc = "idle"
    /\ UNCHANGED <<moviesH, mflixH, commentsH, assigns>>
    /\ IF alreadyInjected(slot[2]) \/ throws
       THEN calls' = [calls EXCEPT ![slot] = [pc |-> "returned", val |-> Undefined]]
       ELSE IF slot[2] = "movies"
       THEN calls' = [calls EXCEPT ![slot] = [pc |-> "awaitDb", val |-> ObjectOf(slot, 1)]]
       ELSE calls' = [calls EXCEPT ![slot] =
                         [pc |-> "awaitCollection", val |-> ObjectOf(slot, 2)]]

\* MoviesDAO.injectDB resumed after `await conn.db(ns)`: #mflix is assigned,
\* then conn.db(ns).collection("movies") is evaluated (`throws`: it throws
\* and the catch block logs it) and awaited
resumeAfterDb(slot, throws) ==
    /\ calls[slot].pc = "awaitDb"
    /\ mflixH' = calls[slot].val
    /\ assigns' = Assigned("mflix")
    /\ UNCHANGED <<moviesH, commentsH, startup>>
    /\ InjectFrame
    /\ IF throws
       THEN calls' = [calls EXCEPT ![slot] = [pc |-> "returned", val |-> Undefined]]
       ELSE calls' = [calls EXCEPT ![slot] =
                         [pc |-> "awaitCollection", val |-> ObjectOf(slot, 2)]]

\* injectDB resumed after the awaited collection(...): the handle is assigned
resumeAfterCollection(slot) ==
    /\ calls[slot].pc = "awaitCollection"
    /\ IF slot[2] = "movies"
       THEN /\ moviesH' = calls[slot].val
            /\ assigns' = Assigned("movies")
            /\ UNCHANGED commentsH
       ELSE /\ commentsH' = calls[slot].val
            /\ assigns' = Assigned("comments")
            /\ UNCHANGED moviesH
    /\ calls' = [calls EXCEPT ![slot] = [pc |-> "returned", val |-> Undefined]]
    /\ UNCHANGED <<mflixH, startup>>
    /\ InjectFrame

\* the then-handler of index.js: await MoviesDAO.injectDB(client), then
\* await CommentsDAO.injectDB(client), then app.listen
startupInjectMovies(throws) ==
    /\ startup = "start"
    /\ injectDB(<<0, "movies">>, throws)
    /\ startup' = "awaitMovies"
    /\ InjectFrame

startupInjectComments(throws) ==
    /\ startup = "awaitMovies"
    /\ calls[<<0, "movies">>].pc = "returned"
    /\ injectDB(<<0, "comments">>, throws)
    /\ startup' = "awaitComments"
    /\ InjectFrame

startupListen ==
    /\ startup = "awaitComments"
    /\ calls[<<0, "comments">>].pc = "returned"
    /\ startup' = "listening"
    /\ UNCHANGED <<moviesH, mflixH, commentsH, calls, assigns>>
    /\ InjectFrame

\* an injectDB call by another importer of the DAO (callers take their
\* slots in order)
callerInjectDB(slot, throws) ==
    /\ slot[1] > 0
    /\ slot[1] > 1 => calls[<<slot[1] - 1, slot[2]>>].pc # "idle"
    /\ injectDB(slot, throws)
    /\ UNCHANGED startup
    /\ InjectFrame

InitInject ==
    /\ movies = <<MovieDoc(MovieA, 1)>>
    /\ comments = StoredComments
    /\ nextOid = FirstCommentOid + 2
    /\ moviesH = Undefined
    /\ mflixH = Undefined
    /\ commentsH = Undefined
    /\ calls = NoCalls
    /\ startup = "start"
    /\ assigns = [h \in {"movies", "mflix", "comments"} |-> 0]
    /\ last = NoInvocation

NextInject ==
    \/ \E t \in BOOLEAN : startupInjectMovies(t)
    \/ \E t \in BOOLEAN : startupInjectComments(t)
    \/ startupListen
    \/ \E s \in Slots, t \in BOOLEAN : callerInjectDB(s, t)
    \/ \E s \in Slots, t \in BOOLEAN : resumeAfterDb(s, t)
    \/ \E s \in Slots : resumeAfterCollection(s)
    \/ startup = "listening" /\ getMovieByID(Hex24(1), FALSE)
    \/ startup = "listening" /\ mostActiveCommenters("natural", FALSE)

SpecInject == InitInject /\ [][NextInject]_vars

\* C10 as stated: under any sequence or interleaving of injectDB calls each
\* DAO's collection handle is assigned at most once, and once it is set no
\* injectDB call and no DAO operation changes it.
HandleInitializedOnce ==
    [][/\ assigns'["movies"] <= 1
       /\ assigns'["comments"] <= 1
       /\ moviesH # Undefined => moviesH' = moviesH
       /\ commentsH # Undefined => commentsH' = commentsH
      ]_vars

(***************************************************************************)
(* The whole facade: the eight operations on one database.                 *)
(***************************************************************************)
InitFacade ==
    /\ movies = <<MovieDoc(MovieA, 1), MovieDoc(MovieB, 2)>>
    /\ comments = <<>>
    /\ nextOid = FirstCommentOid
    /\ moviesH \in {Undefined, 1}
    /\ mflixH = moviesH
    /\ commentsH = IF moviesH = Undefined THEN Undefined ELSE 2
    /\ calls = NoCalls
    /\ startup = "listening"
    /\ assigns = [h \in {"movies", "mflix", "comments"} |-> 0]
    /\ last = NoInvocation

Ada == [name |-> "Ada", email |-> 1]

NextFacade ==
    \/ \E m \in MovieIdInputs, f \in BOOLEAN :
           /\ nextOid < FirstCommentOid + MaxInserts
           /\ addComment(m, Ada, "great film", 1, f)
    \/ \E c \in CommentIdInputs, e \in Emails, f \in BOOLEAN :
           updateComment(c, e, "revised", 2, f)
    \/ \E c \in CommentIdInputs, e \in Emails, f \in BOOLEAN :
           deleteComment(c, e, f)
    \/ \E f \in BOOLEAN :
           mostActiveCommenters("natural", f)
    \/ \E f \in {AbsentFilters, TextFilter("war")}, p \in Pages, x \in GetMoviesFails :
           getMovies(f, p, 1, x)
    \/ \E f \in FacetFilters, x \in FacetFails :
           facetedSearch(f, 0, 1, x)
    \/ \E id \in MovieIdArgs, x \in BOOLEAN :
           getMovieByID(id, x)
    \/ \E c \in CountryArgs, x \in CountryFails :
           getMoviesByCountry(c, x)

SpecFacade == InitFacade /\ [][NextFacade]_vars

\* C9 as stated: each facade operation issues exactly one request to the
\* database per invocation (and awaits it before returning).
ExactlyOneRequest == last.op # "none" => Len(last.reqs) = 1

SingleRequestOps ==
    {"getMoviesByCountry", "getMovieByID", "addComment", "updateComment",
     "deleteComment", "mostActiveCommenters"}

\* the invocation ended before its first driver request: on a handle that
\* was never injected, an identifier ObjectId rejects, a filter facetedSearch
\* rejects, or a find that throws
EndedBeforeRequest(inv) ==
    \/ inv.op \in {"getMovies", "getMoviesByCountry", "getMovieByID", "facetedSearch"}
           /\ moviesH = Undefined
    \/ inv.op \in {"addComment", "updateComment", "deleteComment", "mostActiveCommenters"}
           /\ commentsH = Undefined
    \/ inv.op \in {"getMovies", "getMoviesByCountry"} /\ inv.args.fail = "find"
    \/ inv.op = "getMovieByID" /\ ~ObjectId(inv.args.id).ok
    \/ inv.op = "addComment" /\ ~ObjectId(inv.args.movieId).ok
    \/ inv.op \in {"updateComment", "deleteComment"} /\ ~ObjectId(inv.args.commentId).ok
    \/ inv.op = "facetedSearch"
           /\ (~Truthy(inv.args.filters) \/ "cast" \notin inv.args.filters.has)

\* C9 as amended: an invocation that ends before its driver call issues no
\* request; otherwise getMoviesByCountry, getMovieByID, addComment,
\* updateComment, deleteComment and mostActiveCommenters issue exactly one
\* request, getMovies issues toArray and then, for page 0 only and when
\* toArray succeeded, countDocuments, and facetedSearch issues its query
\* aggregate and then, when that succeeded, its counting aggregate: one
\* request after the other, all before the invocation returns.
RequestsPerInvocation ==
    last.op # "none" =>
        IF EndedBeforeRequest(last) THEN last.reqs = <<>>
        ELSE CASE last.op \in SingleRequestOps -> Len(last.reqs) = 1
               [] last.op = "getMovies" ->
                     last.reqs = IF last.args.page = 0 /\ last.args.fail # "toArray"
                                 THEN <<"toArray", "countDocuments">>
                                 ELSE <<"toArray">>
               [] last.op = "facetedSearch" ->
                     last.reqs = IF last.args.fail = "query"
                                 THEN <<"aggregate.next">>
                                 ELSE <<"aggregate.next", "aggregate.next">>

\* facetedSearch returned its document after two aggregate requests, with a
\* comment stored by an addComment that issued one
RequestsWitness ==
    /\ last.op = "facetedSearch"
    /\ last.ret.kind = "return"
    /\ ~last.ret.hasError
    /\ Len(last.reqs) = 2
    /\ Len(comments) = 1

=============================================================================
